---- MODULE Spec2Model ----
(***************************************************************************)
(* papis_zotero/server.py: the Zotero-connector request handler            *)
(* (PapisRequestHandler) and the field mapper zotero_data_to_papis_data.   *)
(*                                                                         *)
(* Spec    : one HTTP request handled by PapisRequestHandler, statement by *)
(*           statement of do_GET / do_POST / add.                          *)
(* SpecMap : zotero_data_to_papis_data applied to one item dict (the same  *)
(*           dict object, up to MaxCalls times).                           *)
(***************************************************************************)
EXTENDS Integers, Sequences, FiniteSets, TLC

VARIABLES
    req,        \* the request: method, path, raw body
    pc,         \* where the handler is
    data,       \* add(): json.loads(rawinput)["items"], mutated by the mapper
    i,          \* add(): index of the current item of data["items"]
    j,          \* add(): index of the current attachment of the item
    files,      \* add(): the current item's list of temporary file paths
    papis_item, \* add(): the record returned by zotero_data_to_papis_data
    store,      \* the calls papis.commands.add.run(files, data=...) received
    fetches,    \* the calls urllib.request.urlopen(url) received: <<i, j>>
    fs,         \* the temporary files written: fs[path] = content and owner
    out,        \* what was written to the client, in order
    lookups,    \* the calls papis.crossref.doi_to_data(doi) received
    err,        \* the exception that left the handler ("" when none)
    rawinput,   \* add(): the bytes read_input() returned
    results,    \* SpecMap: what each call of the mapper returned
    service     \* SpecMap: what papis.crossref.doi_to_data does when called

vars == <<req, pc, data, i, j, files, papis_item, store, fetches, fs, out,
          lookups, err, rawinput, results, service>>

---------------------------------------------------------------------------
(* Bounds of the model.                                                    *)
MaxItems == 2
MaxAttachments == 2
MaxTags == 2
MaxCalls == 2

---------------------------------------------------------------------------
(* JSON values as json.loads yields them.  A value is a record (t, s, l):  *)
(* its type, its text (str, number) and its elements (list).  A list       *)
(* element is a record (t, s, m): a string, a number, or an attachment     *)
(* descriptor with url s and mimeType m (a sequence of characters; the     *)
(* descriptor of type "attnomime" has no mimeType key).                    *)
Null == [t |-> "null", s |-> "", l |-> <<>>]
Str(x) == [t |-> "str", s |-> x, l |-> <<>>]
Num(x) == [t |-> "num", s |-> x, l |-> <<>>]
Obj == [t |-> "obj", s |-> "", l |-> <<>>]
List(xs) == [t |-> "list", s |-> "", l |-> xs]
StrE(x) == [t |-> "str", s |-> x, m |-> <<>>]
NumE(x) == [t |-> "num", s |-> x, m |-> <<>>]
Att(mime, url) == [t |-> "att", s |-> url, m |-> mime]
AttNoMime(url) == [t |-> "attnomime", s |-> url, m |-> <<>>]

EmptyDict == [k \in {} |-> Null]

(* dict.get(k) / dict.get(k, None): None (JSON null) for an absent key.    *)
Get(d, k) == IF k \in DOMAIN d THEN d[k] ELSE Null

(* The dict left by dict.pop(k, None).                                     *)
Without(d, k) == [x \in DOMAIN d \ {k} |-> d[x]]

(* dict.update(e).                                                         *)
Update(d, e) ==
    [x \in DOMAIN d \cup DOMAIN e |-> IF x \in DOMAIN e THEN e[x] ELSE d[x]]

(* d[k] = v.                                                               *)
Set(d, k, v) == [x \in DOMAIN d \cup {k} |-> IF x = k THEN v ELSE d[x]]

---------------------------------------------------------------------------
(* papis_zotero.sql.ZOTERO_TO_PAPIS_FIELD_MAP: source key -> canonical     *)
(* key, and its keys in iteration order.                                   *)
ZOTERO_TO_PAPIS_FIELD_MAP ==
    [DOI |-> "doi", publicationTitle |-> "journal"]

FieldMapKeys == <<"DOI", "publicationTitle">>

(* server.py 41-44: the loop over the table from key n on; st is           *)
(* [item, data].                                                           *)
RECURSIVE TranslateFrom(_, _)
TranslateFrom(n, st) ==
    IF n > Len(FieldMapKeys) THEN st
    ELSE LET key == FieldMapKeys[n]
             value == Get(st.item, key)
             item2 == Without(st.item, key)
         IN  TranslateFrom(n + 1,
                 [item |-> item2,
                  data |-> IF value # Null
                           THEN Set(st.data, ZOTERO_TO_PAPIS_FIELD_MAP[key], value)
                           ELSE st.data])

(* " ".join(tags) for a list of str elements.                              *)
RECURSIVE Join(_)
Join(xs) ==
    IF Len(xs) = 0 THEN ""
    ELSE IF Len(xs) = 1 THEN xs[1].s
    ELSE xs[1].s \o " " \o Join(Tail(xs))

(* str.join raises TypeError unless every element is a str.                *)
JoinRaises(xs) == \E n \in 1..Len(xs) : xs[n].t # "str"

(* Variants of MapLocal: one that does not pop "id", one that copies the   *)
(* leftover keys before the table is applied.                              *)
MapLocalKeepsId(item) ==
    LET item1 == Without(item, "attachments")
        st == TranslateFrom(1, [item |-> item1, data |-> EmptyDict])
        tags == Get(st.item, "tags")
        item3 == Without(st.item, "tags")
    IN  IF tags.t = "list" /\ JoinRaises(tags.l)
        THEN [raised |-> "TypeError", data |-> st.data, item |-> item3]
        ELSE [raised |-> "",
              data |-> Update(IF tags.t = "list"
                              THEN Set(st.data, "tags", Str(Join(tags.l)))
                              ELSE st.data,
                              item3),
              item |-> item3]

MapLocalTableLast(item) ==
    LET item1 == Without(Without(item, "id"), "attachments")
        st == TranslateFrom(1, [item |-> item1, data |-> EmptyDict])
        tags == Get(st.item, "tags")
        item3 == Without(st.item, "tags")
    IN  IF tags.t = "list" /\ JoinRaises(tags.l)
        THEN [raised |-> "TypeError", data |-> st.data, item |-> item3]
        ELSE [raised |-> "",
              data |-> Update(item3,
                              IF tags.t = "list"
                              THEN Set(st.data, "tags", Str(Join(tags.l)))
                              ELSE st.data),
              item |-> item3]

(* server.py 34-51: the mapper up to data.update(item).  Returns the data  *)
(* built, the item dict as the pops left it, and the exception raised.     *)
MapLocal(item) ==
    LET item1 == Without(Without(item, "id"), "attachments")
        st == TranslateFrom(1, [item |-> item1, data |-> EmptyDict])
        tags == Get(st.item, "tags")
        item3 == Without(st.item, "tags")
    IN  IF tags.t = "list" /\ JoinRaises(tags.l)
        THEN [raised |-> "TypeError", data |-> st.data, item |-> item3]
        ELSE [raised |-> "",
              data |-> Update(IF tags.t = "list"
                              THEN Set(st.data, "tags", Str(Join(tags.l)))
                              ELSE st.data,
                              item3),
              item |-> item3]

(* str(doi).                                                               *)
PyStr(v) == IF v.t = "list" THEN "[...]" ELSE IF v.t = "obj" THEN "{...}" ELSE v.s

(* Variant of MergeCrossref that does not pop the lookup's title.           *)
MergeCrossrefKeepsTitle(d, crossref_data) == Update(d, crossref_data)

(* server.py 57-60: crossref_data.pop("title", None); data.update(...).    *)
MergeCrossref(d, crossref_data) == Update(d, Without(crossref_data, "title"))

(* Variant of the mapper that looks up whenever the key doi is in data,     *)
(* also with the value None.                                               *)
MapperLooksUpNullDoi(item, cr) ==
    LET loc == MapLocal(item)
        doi == Get(loc.data, "doi")
    IN  IF loc.raised # ""
        THEN [raised |-> loc.raised, ret |-> EmptyDict, item |-> loc.item,
              looked |-> <<>>]
        ELSE IF "doi" \notin DOMAIN loc.data
        THEN [raised |-> "", ret |-> loc.data, item |-> loc.item,
              looked |-> <<>>]
        ELSE IF cr.raised
        THEN [raised |-> "CrossrefError", ret |-> EmptyDict, item |-> loc.item,
              looked |-> <<PyStr(doi)>>]
        ELSE [raised |-> "", ret |-> MergeCrossref(loc.data, cr.data),
              item |-> loc.item, looked |-> <<PyStr(doi)>>]

(* server.py 32-62: zotero_data_to_papis_data(item), with cr what          *)
(* papis.crossref.doi_to_data does if called: [raised, data].  Returns the *)
(* record (ret), the exception that escaped (raised), the item dict as the *)
(* call left it, and the DOIs looked up.                                   *)
zotero_data_to_papis_data(item, cr) ==
    LET loc == MapLocal(item)
        doi == Get(loc.data, "doi")
    IN  IF loc.raised # ""
        THEN [raised |-> loc.raised, ret |-> EmptyDict, item |-> loc.item,
              looked |-> <<>>]
        ELSE IF doi = Null
        THEN [raised |-> "", ret |-> loc.data, item |-> loc.item,
              looked |-> <<>>]
        ELSE IF cr.raised
        THEN [raised |-> "CrossrefError", ret |-> EmptyDict, item |-> loc.item,
              looked |-> <<PyStr(doi)>>]
        ELSE [raised |-> "", ret |-> MergeCrossref(loc.data, cr.data),
              item |-> loc.item, looked |-> <<PyStr(doi)>>]

---------------------------------------------------------------------------
(* Inputs.                                                                 *)
Absent == [t |-> "absent", s |-> "", l |-> <<>>]

(* rawinput before read_input() was called.                                *)
Unread == [kind |-> "unread", items |-> <<>>]

(* The dict holding the keys of the record f that are present.             *)
Dict(f) == [k \in {x \in DOMAIN f : f[x] # Absent} |-> f[k]]

SeqsUpTo(S, n) == UNION {[1..m -> S] : m \in 0..n}

(* The shapes of a tags value: lists of strings, lists holding a number,   *)
(* a string, a number, a mapping.                                          *)
TagElements == {StrE("a"), StrE("b")}

TagsValues == {List(xs) : xs \in SeqsUpTo(TagElements, MaxTags)}
              \cup {List(<<NumE("1")>>), List(<<StrE("a"), NumE("1")>>),
                    Str("a b"), Num("7"), Obj}

(* What papis.crossref.doi_to_data may do: raise, or return a mapping.     *)
CrossrefKeys == {"title", "journal", "id"}

CrossrefData ==
    {[k \in K |-> Str("crossref " \o k)] : K \in SUBSET CrossrefKeys}

CrossrefOutcomes ==
    {[raised |-> TRUE, data |-> EmptyDict]}
    \cup {[raised |-> FALSE, data |-> d] : d \in CrossrefData}

(* What the lookup may do for an item of a saveItems batch.                *)
HandlerCrossrefOutcomes ==
    {o \in CrossrefOutcomes : o.raised \/ DOMAIN o.data = {"title", "journal"}}

(* Recorded for a call of the mapper that made no lookup.                  *)
NoLookup == [raised |-> FALSE, data |-> EmptyDict]

(* The item dicts the mapper is applied to in SpecMap.                     *)
MapItems ==
    {Dict([id |-> a, attachments |-> b, DOI |-> c, doi |-> d, tags |-> e,
           title |-> f, journal |-> g, publicationTitle |-> h]) :
        a \in {Absent, Str("ID1")},
        b \in {Absent, List(<<>>)},
        c \in {Absent, Null, Str("10.1/upper")},
        d \in {Absent, Null, Str("10.1/lower")},
        e \in {Absent} \cup TagsValues,
        f \in {Absent, Str("T")},
        g \in {Absent, Str("J")},
        h \in {Absent, Str("P")}}

---------------------------------------------------------------------------
(* SpecMap: the mapper called on one dict object.                          *)
InitMap ==
    /\ req = [method |-> "", path |-> "", body |-> [kind |-> "batch", items |-> <<>>]]
    /\ pc = "map"
    /\ \E item \in MapItems : data = <<item>>
    /\ i = 1
    /\ j = 0
    /\ files = <<>>
    /\ papis_item = EmptyDict
    /\ store = <<>>
    /\ fetches = <<>>
    /\ fs = <<>>
    /\ out = <<>>
    /\ lookups = <<>>
    /\ err = ""
    /\ rawinput = Unread
    /\ results = <<>>
    /\ service \in CrossrefOutcomes

(* One call zotero_data_to_papis_data(item) on the dict object data[1].    *)
MapCall ==
    /\ pc = "map"
    /\ Len(results) < MaxCalls
    /\ LET r == zotero_data_to_papis_data(data[1], service)
       IN  /\ results' = Append(results,
                             [arg |-> data[1], raised |-> r.raised,
                              ret |-> r.ret, looked |-> r.looked,
                              cr |-> IF r.looked = <<>> THEN NoLookup
                                     ELSE service])
           /\ data' = <<r.item>>
           /\ lookups' = lookups \o r.looked
    /\ UNCHANGED <<req, pc, i, j, files, papis_item, store, fetches, fs, out, err,
                   rawinput, service>>

NextMap == MapCall

SpecMap == InitMap /\ [][NextMap]_vars

---------------------------------------------------------------------------
(* The handler.                                                            *)
ZOTERO_CONNECTOR_API_VERSION == 2
ZOTERO_VERSION == "5.0.25"

(* str(n) for the one-digit integers.                                      *)
PyStrInt(n) == <<"0", "1", "2", "3", "4", "5", "6", "7", "8", "9">>[n + 1]

(* What the handler writes to the client: a status line, a header, the     *)
(* end of the headers, or a body (v: text; raw: request bytes echoed).     *)
NoBytes == [kind |-> "none", items |-> <<>>]
StatusLine(code) == [k |-> "status", n |-> "", v |-> code, raw |-> NoBytes]
Header(name, value) == [k |-> "header", n |-> name, v |-> value, raw |-> NoBytes]
EndHeaders == [k |-> "end_headers", n |-> "", v |-> "", raw |-> NoBytes]
Body(text) == [k |-> "body", n |-> "", v |-> text, raw |-> NoBytes]
RawBody(bytes) == [k |-> "body", n |-> "", v |-> "", raw |-> bytes]

(* Variant of set_zotero_headers that sends no connector API version.      *)
HeadersWithoutApiVersion ==
    << Header("X-Zotero-Version", ZOTERO_VERSION), EndHeaders >>

(* server.py 70-74: set_zotero_headers.                                    *)
set_zotero_headers ==
    << Header("X-Zotero-Version", ZOTERO_VERSION),
       Header("X-Zotero-Connector-API-Version",
              PyStrInt(ZOTERO_CONNECTOR_API_VERSION)),
       EndHeaders >>

PingPage == "<!DOCTYPE html> ... Zotero Connector Server is Available ..."
PingPrefs == "{\"prefs\": {\"automaticSnapshots\": true}}"
CollectionJson == "{\"libraryID\": 1, \"libraryName\": lib, ... \"name\": lib}"

(* server.py 76-78: read_input, the content-length bytes of the request    *)
(* body.                                                                   *)
read_input == req.body

(* Variant of pong that answers GET as it answers POST.                    *)
PongAlwaysJson(POST) ==
    <<StatusLine("200"), Header("Content-Type", "application/json")>>
    \o set_zotero_headers \o <<Body(PingPrefs)>>

(* server.py 80-106: pong.                                                 *)
pong(POST) ==
    IF ~POST
    THEN <<StatusLine("200"), Header("Content-Type", "text/html")>>
         \o set_zotero_headers \o <<Body(PingPage)>>
    ELSE <<StatusLine("200"), Header("Content-Type", "application/json")>>
         \o set_zotero_headers \o <<Body(PingPrefs)>>

(* server.py 108-125: papis_collection.                                    *)
papis_collection ==
    <<StatusLine("200"), Header("Content-Type", "application/json")>>
    \o set_zotero_headers \o <<Body(CollectionJson)>>

(* Variant of snapshot that answers 200 with a body.                       *)
SnapshotAnswers200 ==
    <<StatusLine("200")>> \o set_zotero_headers \o <<Body("{}")>>

(* server.py 173-176: snapshot.                                            *)
snapshot == <<StatusLine("201")>> \o set_zotero_headers

(* server.py 168-171: the acknowledgment of add.                          *)
Acknowledge(bytes) ==
    <<StatusLine("201")>> \o set_zotero_headers \o <<RawBody(bytes)>>

(* mimeType values, as sequences of characters.                            *)
AppSlash == <<"a", "p", "p", "l", "i", "c", "a", "t", "i", "o", "n", "/">>
MimePdf == AppSlash \o <<"p", "d", "f">>
MimePdfUpper == AppSlash \o <<"P", "D", "F">>
MimeHtml == <<"t", "e", "x", "t", "/", "h", "t", "m", "l">>

(* server.py 136: str(attachment.get("mimeType")); str(None) is "None".    *)
MimeOf(attachment) ==
    IF attachment.t = "attnomime" THEN <<"N", "o", "n", "e">> ELSE attachment.m

(* server.py 138: re.match(r".*pdf.*", mime): "pdf" occurs in mime, with   *)
(* no newline before it ("." matches no newline).                          *)
MatchesPdf(mime) ==
    \E p \in 1..(Len(mime) - 2) :
        /\ SubSeq(mime, p, p + 2) = <<"p", "d", "f">>
        /\ \A q \in 1..(p - 1) : mime[q] # "\n"

(* server.py 134: item.get("attachments") and len(...) > 0.                *)
HasAttachments(item) ==
    LET a == Get(item, "attachments")
    IN  a.t = "list" /\ Len(a.l) > 0

(* papis_zotero.utils.is_pdf: the content starts with the PDF signature.   *)
PdfMagic == <<"%", "P", "D", "F", "-">>
is_pdf(content) ==
    Len(content) >= Len(PdfMagic) /\ SubSeq(content, 1, Len(PdfMagic)) = PdfMagic

(* What urllib.request.urlopen(url).read() may do: return the bytes, or    *)
(* raise HTTPError (a non-2xx status), URLError (unreachable host) or      *)
(* timeout.                                                                *)
PdfBytes == PdfMagic \o <<"1", ".", "4">>
HtmlBytes == <<"<", "h", "t", "m", "l", ">">>
FetchOutcomes ==
    {[raised |-> "", content |-> c] : c \in {PdfBytes, HtmlBytes}}
    \cup {[raised |-> e, content |-> <<>>] : e \in {"HTTPError", "URLError", "timeout"}}

(* server.py 143: except urllib.error.HTTPError.                           *)
Caught(exc) == exc = "HTTPError"

(* server.py 155-160: files after the content written to pdfpath was       *)
(* checked.                                                                *)
KeepFileAlways(fileList, pdfpath, content) == Append(fileList, pdfpath)
KeepFile(fileList, pdfpath, content) ==
    IF is_pdf(content) THEN Append(fileList, pdfpath) ELSE fileList

---------------------------------------------------------------------------
(* Requests.                                                               *)
Url == "http://host/file"
Mimes == {MimePdf, MimePdfUpper, MimeHtml}
Descriptors == {Att(m, Url) : m \in Mimes} \cup {AttNoMime(Url)}

(* The three ways an item carries no attachment: no key, null, [].         *)
NoAttachments == {Absent, Null, List(<<>>)}

DoiValues == {Absent, Str("10.1/lower")}

(* One item of a saveItems batch.                                          *)
MakeItem(doi, attachments) ==
    Dict([id |-> Str("ID1"), title |-> Str("T"), attachments |-> attachments,
          doi |-> doi])

RECURSIVE Sum(_)
Sum(c) == IF Len(c) = 0 THEN 0 ELSE c[1] + Sum(Tail(c))

(* The batch of n items where item p has the DOI dois[p] and the next c[p] *)
(* descriptors of flat (kinds[p] says how it has none).                    *)
MakeBatch(n, dois, kinds, c, flat) ==
    [p \in 1..n |->
        LET before == Sum(SubSeq(c, 1, p - 1))
        IN  MakeItem(dois[p],
                     IF c[p] = 0 THEN kinds[p]
                     ELSE List(SubSeq(flat, before + 1, before + c[p])))]

(* Request bodies: bytes that are no JSON, a JSON object without "items",  *)
(* a JSON object with an items array.                                      *)
Malformed == [kind |-> "malformed", items |-> <<>>]
NoItems == [kind |-> "noitems", items |-> <<>>]
Batch(items) == [kind |-> "batch", items |-> items]

Paths == {"/connector/ping", "/connector/getSelectedCollection",
          "/connector/saveSnapshot", "/connector/saveItems", "/other"}

Request(method, path, body) == [method |-> method, path |-> path, body |-> body]

(* A saveItems request with a batch of at most MaxItems items holding at   *)
(* most MaxAttachments attachment descriptors.                             *)
IsBatchRequest(r) ==
    \E n \in 0..MaxItems :
    \E c \in [1..n -> 0..MaxAttachments] :
        /\ Sum(c) <= MaxAttachments
        /\ \E flat \in [1..Sum(c) -> Descriptors] :
           \E dois \in [1..n -> DoiValues] :
           \E kinds \in [1..n -> NoAttachments] :
               /\ \A p \in 1..n : c[p] > 0 => kinds[p] = List(<<>>)
               /\ r = Request("POST", "/connector/saveItems",
                              Batch(MakeBatch(n, dois, kinds, c, flat)))

(* Any other request.                                                      *)
IsOtherRequest(r) ==
    \/ \E b \in {Malformed, NoItems} : r = Request("POST", "/connector/saveItems", b)
    \/ \E m \in {"GET", "POST"} : \E p \in Paths : \E b \in {Malformed, Batch(<<>>)} :
          /\ ~(m = "POST" /\ p = "/connector/saveItems")
          /\ r = Request(m, p, b)

Init ==
    /\ (IsBatchRequest(req) \/ IsOtherRequest(req))
    /\ pc = "dispatch"
    /\ data = <<>>
    /\ i = 0
    /\ j = 0
    /\ files = <<>>
    /\ papis_item = EmptyDict
    /\ store = <<>>
    /\ fetches = <<>>
    /\ fs = <<>>
    /\ out = <<>>
    /\ lookups = <<>>
    /\ err = ""
    /\ rawinput = Unread
    /\ results = <<>>
    /\ service = NoLookup

addVars == <<data, i, j, files, papis_item, store, fetches, fs, lookups,
             rawinput, results, service>>

(* Variant of DoGetOther that answers 404.                                 *)
DoGetOtherAnswers404 ==
    /\ pc = "dispatch" /\ req.method = "GET" /\ req.path # "/connector/ping"
    /\ out' = out \o <<StatusLine("404"), EndHeaders>>
    /\ pc' = "done"
    /\ UNCHANGED <<req, err>> /\ UNCHANGED addVars

(* server.py 188-190: do_GET.                                              *)
DoGetPing ==
    /\ pc = "dispatch" /\ req.method = "GET" /\ req.path = "/connector/ping"
    /\ out' = out \o pong(FALSE)
    /\ pc' = "done"
    /\ UNCHANGED <<req, err>> /\ UNCHANGED addVars

DoGetOther ==
    /\ pc = "dispatch" /\ req.method = "GET" /\ req.path # "/connector/ping"
    /\ pc' = "done"
    /\ UNCHANGED <<req, err, out>> /\ UNCHANGED addVars

(* server.py 178-186: do_POST.                                             *)
DoPostPing ==
    /\ pc = "dispatch" /\ req.method = "POST" /\ req.path = "/connector/ping"
    /\ out' = out \o pong(TRUE)
    /\ pc' = "done"
    /\ UNCHANGED <<req, err>> /\ UNCHANGED addVars

DoPostCollection ==
    /\ pc = "dispatch" /\ req.method = "POST"
    /\ req.path = "/connector/getSelectedCollection"
    /\ out' = out \o papis_collection
    /\ pc' = "done"
    /\ UNCHANGED <<req, err>> /\ UNCHANGED addVars

DoPostSnapshot ==
    /\ pc = "dispatch" /\ req.method = "POST" /\ req.path = "/connector/saveSnapshot"
    /\ out' = out \o snapshot
    /\ pc' = "done"
    /\ UNCHANGED <<req, err>> /\ UNCHANGED addVars

DoPostOther ==
    /\ pc = "dispatch" /\ req.method = "POST"
    /\ req.path \notin {"/connector/ping", "/connector/getSelectedCollection",
                        "/connector/saveSnapshot", "/connector/saveItems"}
    /\ pc' = "done"
    /\ UNCHANGED <<req, err, out>> /\ UNCHANGED addVars

(* json.loads(rawinput.decode("utf8")) and data["items"]: the exception    *)
(* raised, "" when there is none.                                          *)
DecodeRaisesLenient(bytes) ==
    IF bytes.kind = "noitems" THEN "KeyError" ELSE ""
DecodeRaises(bytes) ==
    IF bytes.kind = "malformed" THEN "JSONDecodeError"
    ELSE IF bytes.kind = "noitems" THEN "KeyError"
    ELSE ""

(* Variant of AddRead that sends the acknowledgment before the loop.       *)
AddReadAcksFirst ==
    /\ pc = "dispatch" /\ req.method = "POST" /\ req.path = "/connector/saveItems"
    /\ rawinput' = read_input
    /\ IF DecodeRaises(rawinput') # ""
       THEN /\ err' = DecodeRaises(rawinput')
            /\ pc' = "raised"
            /\ UNCHANGED <<data, i, out>>
       ELSE /\ data' = rawinput'.items
            /\ i' = 1
            /\ pc' = "for_item"
            /\ err' = err
            /\ out' = out \o Acknowledge(rawinput')
    /\ UNCHANGED <<req, j, files, papis_item, store, fetches, fs, lookups,
                   results, service>>

(* server.py 127-132: add() reads and decodes the body.                    *)
AddRead ==
    /\ pc = "dispatch" /\ req.method = "POST" /\ req.path = "/connector/saveItems"
    /\ rawinput' = read_input
    /\ IF DecodeRaises(rawinput') # ""
       THEN /\ err' = DecodeRaises(rawinput')
            /\ pc' = "raised"
            /\ UNCHANGED <<data, i>>
       ELSE /\ data' = rawinput'.items
            /\ i' = 1
            /\ pc' = "for_item"
            /\ err' = err
    /\ UNCHANGED <<req, j, files, papis_item, store, fetches, fs, out, lookups,
                   results, service>>

(* Variant of ForItem that does not start the item with an empty list.     *)
ForItemKeepsFiles ==
    /\ pc = "for_item"
    /\ IF i > Len(data)
       THEN /\ pc' = "respond"
            /\ UNCHANGED <<files, j>>
       ELSE /\ files' = files
            /\ IF HasAttachments(data[i])
               THEN pc' = "for_attachment" /\ j' = 1
               ELSE pc' = "map" /\ j' = j
    /\ UNCHANGED <<req, data, i, papis_item, store, fetches, fs, out, lookups,
                   err, rawinput, results, service>>

(* server.py 132-134, 161-162: the next item of the batch, or the end of   *)
(* the loop.                                                               *)
ForItem ==
    /\ pc = "for_item"
    /\ IF i > Len(data)
       THEN /\ pc' = "respond"
            /\ UNCHANGED <<files, j>>
       ELSE /\ files' = <<>>
            /\ IF HasAttachments(data[i])
               THEN pc' = "for_attachment" /\ j' = 1
               ELSE pc' = "map" /\ j' = j
    /\ UNCHANGED <<req, data, i, papis_item, store, fetches, fs, out, lookups,
                   err, rawinput, results, service>>

(* server.py 135-160: one attachment of the item.                          *)
ForAttachment ==
    /\ pc = "for_attachment"
    /\ LET attachments == Get(data[i], "attachments").l
       IN  IF j > Len(attachments)
           THEN /\ pc' = "map"
                /\ UNCHANGED <<j, files, fetches, fs, err>>
           ELSE IF ~MatchesPdf(MimeOf(attachments[j]))
           THEN /\ j' = j + 1
                /\ UNCHANGED <<pc, files, fetches, fs, err>>
           ELSE \E o \in FetchOutcomes :
                /\ fetches' = Append(fetches, <<i, j>>)
                /\ IF o.raised # ""
                   THEN IF Caught(o.raised)
                        THEN /\ j' = j + 1
                             /\ UNCHANGED <<pc, files, fs, err>>
                        ELSE /\ err' = o.raised
                             /\ pc' = "raised"
                             /\ UNCHANGED <<j, files, fs>>
                   ELSE /\ fs' = Append(fs, [content |-> o.content, item |-> i,
                                             att |-> j])
                        /\ files' = KeepFile(files, Len(fs) + 1, o.content)
                        /\ j' = j + 1
                        /\ UNCHANGED <<pc, err>>
    /\ UNCHANGED <<req, data, i, papis_item, store, out, lookups, rawinput,
                   results, service>>

(* server.py 164: papis_item = zotero_data_to_papis_data(item).            *)
MapItem ==
    /\ pc = "map"
    /\ \E cr \in HandlerCrossrefOutcomes :
        LET r == zotero_data_to_papis_data(data[i], cr)
        IN  /\ data' = [data EXCEPT ![i] = r.item]
            /\ lookups' = lookups \o r.looked
            /\ IF r.raised # ""
               THEN /\ err' = r.raised
                    /\ pc' = "raised"
                    /\ UNCHANGED papis_item
               ELSE /\ papis_item' = r.ret
                    /\ pc' = "add_run"
                    /\ UNCHANGED err
    /\ UNCHANGED <<req, i, j, files, store, fetches, fs, out, rawinput, results,
                   service>>

(* server.py 166: papis.commands.add.run(files, data=papis_item), which    *)
(* adds the document or raises.                                            *)
AddRun ==
    /\ pc = "add_run"
    /\ \E ok \in BOOLEAN :
        IF ok
        THEN /\ store' = Append(store, [files |-> files, data |-> papis_item,
                                        item |-> i])
             /\ i' = i + 1
             /\ pc' = "for_item"
             /\ UNCHANGED err
        ELSE /\ err' = "StoreError"
             /\ pc' = "raised"
             /\ UNCHANGED <<store, i>>
    /\ UNCHANGED <<req, data, j, files, papis_item, fetches, fs, out, lookups,
                   rawinput, results, service>>

(* server.py 168-171: the acknowledgment.                                  *)
Respond ==
    /\ pc = "respond"
    /\ out' = out \o Acknowledge(rawinput)
    /\ pc' = "done"
    /\ UNCHANGED <<req, err>> /\ UNCHANGED addVars

Next ==
    \/ DoGetPing \/ DoGetOther
    \/ DoPostPing \/ DoPostCollection \/ DoPostSnapshot \/ DoPostOther
    \/ AddRead \/ ForItem \/ ForAttachment \/ MapItem \/ AddRun \/ Respond

Spec == Init /\ [][Next]_vars

---------------------------------------------------------------------------
(* Properties.                                                             *)
Range(f) == {f[x] : x \in DOMAIN f}

IsSaveItems == req.method = "POST" /\ req.path = "/connector/saveItems"
IsBatch == IsSaveItems /\ req.body.kind = "batch"
Terminated == pc \in {"done", "raised"}
Acked == out = Acknowledge(req.body)
NumItems == Len(req.body.items)

(* The items handed to the document store, in the order of the calls.      *)
StoredItems == [n \in 1..Len(store) |-> store[n].item]

NumAttachments(item) ==
    LET a == Get(item, "attachments") IN IF a.t = "list" THEN Len(a.l) ELSE 0

(* Attachment a of item k as the request carried it.                       *)
Descriptor(k, a) == Get(req.body.items[k], "attachments").l[a]

(* C1: in a saveItems run where nothing but attachment fetches fails, a    *)
(* fetch that fails with a transport-level error (non-2xx status,          *)
(* unreachable host, timeout) only skips that attachment: once the handler *)
(* has ended, every item of the batch was handed to the document store and *)
(* the 201 acknowledgment was sent; no error is visible to the client.     *)
C1_FetchFailureIsolated ==
    (IsBatch /\ Terminated /\ err \in {"", "HTTPError", "URLError", "timeout"})
        => /\ err = ""
           /\ StoredItems = [n \in 1..NumItems |-> n]
           /\ Acked

(* C2: for every saveItems request whose body decodes to a JSON object     *)
(* with an items array, once the handler has ended the document-store add  *)
(* was invoked exactly once per item, in array order, and the response is  *)
(* status 201 with the raw request body echoed.                            *)
C2_OncePerItemThenEcho ==
    (IsBatch /\ Terminated)
        => /\ StoredItems = [n \in 1..NumItems |-> n]
           /\ Acked

(* C3: a failure of the field mapper or of the document-store add for item *)
(* k does not stop the batch: every later item is handed to the document   *)
(* store and the 201 acknowledgment is sent.                               *)
C3_ItemFailureIsolated ==
    (IsBatch /\ Terminated /\ err \in {"", "TypeError", "CrossrefError", "StoreError"})
        => /\ \A k \in (i + 1)..NumItems : k \in Range(StoredItems)
           /\ Acked

(* C4: if the saveItems body is not valid JSON, no attachment is fetched,  *)
(* the document-store add and the lookup are never invoked and no status   *)
(* line (so no 201) is written.                                            *)
C4_MalformedNoProcessing ==
    (IsSaveItems /\ req.body.kind = "malformed")
        => /\ fetches = <<>>
           /\ fs = <<>>
           /\ store = <<>>
           /\ lookups = <<>>
           /\ \A n \in 1..Len(out) : out[n].k # "status"

C4_Witness ==
    IsSaveItems /\ req.body.kind = "malformed" /\ pc = "raised"
    /\ err = "JSONDecodeError"

(* The paths of the files fetched for item k whose content is a PDF, in    *)
(* the order they were written.                                            *)
PdfPathsOf(k) ==
    LET IsPdfOfK(p) == fs[p].item = k /\ is_pdf(fs[p].content)
    IN  SelectSeq([p \in 1..Len(fs) |-> p], IsPdfOfK)

C7_Files ==
    /\ \A n \in 1..Len(store) :
        LET s == store[n]
        IN  /\ s.files = PdfPathsOf(s.item)
            /\ \A x \in 1..Len(s.files) :
                /\ MatchesPdf(MimeOf(Descriptor(s.item, fs[s.files[x]].att)))
                /\ <<s.item, fs[s.files[x]].att>> \in Range(fetches)
                /\ \A y \in 1..(x - 1) : fs[s.files[y]].att < fs[s.files[x]].att
    /\ \A k \in 1..(i - 1) : k \in Range(StoredItems)
    /\ (IsBatch /\ pc = "done") => StoredItems = [n \in 1..NumItems |-> n]

C7_NotPdfSkipped ==
    (Len(fs') = Len(fs) + 1 /\ ~is_pdf(fs'[Len(fs')].content))
        => /\ files' = files
           /\ pc' = "for_attachment"
           /\ j' = j + 1
           /\ err' = ""

(* C7: the files handed to the document store with an item are exactly, in *)
(* attachment order, its attachments whose media type matched the PDF      *)
(* pattern, whose fetch succeeded and whose content is a PDF; content that *)
(* is not a PDF is dropped, the handler goes on to the next attachment     *)
(* with no exception, and every item the loop has passed was added.        *)
C7_FilesAreValidatedPdfs == []C7_Files /\ [][C7_NotPdfSkipped]_vars

C7_Witness ==
    /\ pc = "done" /\ IsBatch /\ Acked
    /\ \E n \in 1..Len(store) :
        /\ store[n].files = <<2>>
        /\ fs[1].item = store[n].item /\ ~is_pdf(fs[1].content)
        /\ fs[2].item = store[n].item

(* "pdf" occurs in mime, whatever the case of its letters.                 *)
Lower(c) ==
    IF c = "P" THEN "p" ELSE IF c = "D" THEN "d" ELSE IF c = "F" THEN "f" ELSE c

ContainsPdfIgnoreCase(mime) ==
    \E p \in 1..(Len(mime) - 2) :
        <<Lower(mime[p]), Lower(mime[p + 1]), Lower(mime[p + 2])>> = <<"p", "d", "f">>

(* C9: once a batch has been processed, an attachment was fetched if and   *)
(* only if its declared media type contains "pdf" as a case-insensitive    *)
(* substring (an absent media type is never fetched).                      *)
C9_FetchedIffPdfIgnoreCase ==
    (IsBatch /\ pc = "done")
        => \A k \in 1..NumItems :
           \A a \in 1..NumAttachments(req.body.items[k]) :
               (<<k, a>> \in Range(fetches))
                   <=> (Descriptor(k, a).t = "att"
                        /\ ContainsPdfIgnoreCase(Descriptor(k, a).m))

---------------------------------------------------------------------------
(* Properties of the mapper (SpecMap).  r ranges over the recorded calls:  *)
(* r.arg the dict passed, r.ret the record returned, r.raised the          *)
(* exception, r.looked the DOI looked up, r.cr what the lookup did.        *)
Calls == Range(results)

(* The keys the lookup's mapping put into the record.                      *)
Enriched(r) ==
    IF r.looked # <<>> /\ ~r.cr.raised THEN DOMAIN r.cr.data \ {"title"} ELSE {}

(* C5 as stated: whatever the item and the lookup's result, the record     *)
(* returned holds neither the key id nor the key attachments.              *)
C5_NeverIdNorAttachments ==
    \A r \in Calls :
        r.raised = "" => DOMAIN r.ret \cap {"id", "attachments"} = {}

(* C5 amended: the item's own id and attachments never reach the record    *)
(* returned: it holds the key id or attachments only when the lookup's     *)
(* mapping holds that key, and then with the lookup's value.               *)
C5_OwnIdAndAttachmentsStripped ==
    \A r \in Calls :
        r.raised = "" =>
            \A k \in DOMAIN r.ret \cap {"id", "attachments"} :
                k \in Enriched(r) /\ r.ret[k] = r.cr.data[k]

C5_Witness ==
    \E r \in Calls :
        /\ {"id", "attachments"} \subseteq DOMAIN r.arg
        /\ r.raised = "" /\ r.looked # <<>>
        /\ DOMAIN r.ret \cap {"id", "attachments"} = {}
        /\ "journal" \in Enriched(r)

AllStr(xs) == \A n \in 1..Len(xs) : xs[n].t = "str"

(* C6: a tags field that is a list of strings comes out as the strings     *)
(* joined by single spaces; a tags field of any other shape comes out      *)
(* unchanged under the key tags and raises no error.                       *)
C6_TagsJoinedOrPassedThrough ==
    \A r \in Calls :
        "tags" \in DOMAIN r.arg =>
            LET tags == r.arg["tags"]
            IN  IF tags.t = "list" /\ AllStr(tags.l)
                THEN r.raised = "" => Get(r.ret, "tags") = Str(Join(tags.l))
                ELSE /\ r.raised # "TypeError"
                     /\ r.raised = "" => Get(r.ret, "tags") = tags

(* C8: when the record holds a doi and the lookup raises, the mapper still *)
(* returns the record built so far, with no enrichment applied.            *)
C8_LookupFailureTolerated ==
    \A r \in Calls :
        (r.looked # <<>> /\ r.cr.raised)
            => r.raised = "" /\ r.ret = MapLocal(r.arg).data

Translated == DOMAIN ZOTERO_TO_PAPIS_FIELD_MAP
Leftover(arg) == DOMAIN arg \ (Translated \cup {"id", "attachments", "tags"})

(* The canonical key k of the record, as lines 40-51 decide it, outside    *)
(* the keys in E: a leftover key keeps its own value (also against a       *)
(* translated one); a translated source key with a non-null value appears  *)
(* under its canonical name only.                                          *)
LeftoverWins(r, E) ==
    /\ \A k \in Leftover(r.arg) \ E :
        k \in DOMAIN r.ret /\ r.ret[k] = r.arg[k]
    /\ \A k \in (DOMAIN r.arg \cap Translated) \ E : k \notin DOMAIN r.ret
    /\ \A k \in DOMAIN r.arg \cap Translated :
        LET c == ZOTERO_TO_PAPIS_FIELD_MAP[k]
        IN  (r.arg[k] # Null /\ c \notin E)
                => /\ c \in DOMAIN r.ret
                   /\ r.ret[c] = IF c \in DOMAIN r.arg THEN r.arg[c] ELSE r.arg[k]

(* C10 as stated: in the record returned, every leftover key of the input  *)
(* has its own value, also when a translated key names the same canonical  *)
(* key, and a translated source key appears under its canonical name only. *)
C10_LeftoverWins ==
    \A r \in Calls : r.raised = "" => LeftoverWins(r, {})

(* C10 amended: the same, for every key the lookup's mapping does not      *)
(* hold; a key it holds (other than title) has the lookup's value.         *)
C10_LeftoverWinsUnlessEnriched ==
    \A r \in Calls :
        r.raised = "" =>
            /\ LeftoverWins(r, Enriched(r))
            /\ \A k \in Enriched(r) : r.ret[k] = r.cr.data[k]

C10_Witness ==
    \E r \in Calls :
        /\ {"DOI", "doi", "publicationTitle"} \subseteq DOMAIN r.arg
        /\ r.arg["DOI"] # Null /\ r.arg["doi"] # Null
        /\ "journal" \notin DOMAIN r.arg
        /\ r.raised = "" /\ r.looked # <<>> /\ Enriched(r) = {"id"}
        /\ r.ret["doi"] = r.arg["doi"]
        /\ r.ret["journal"] = r.arg["publicationTitle"]

(* The doi of the record before enrichment: the item's own doi when it has *)
(* the key (null included), else the value under the source key DOI.       *)
OutputDoi(arg) == IF "doi" \in DOMAIN arg THEN arg["doi"] ELSE Get(arg, "DOI")

(* C11 as stated: for an item without the key doi the mapper makes no      *)
(* lookup, also when the item carries the DOI under a source key that the  *)
(* table maps to doi.                                                      *)
C11_NoDoiKeyNoLookup ==
    \A r \in Calls : "doi" \notin DOMAIN r.arg => r.looked = <<>>

(* C11 amended: the mapper makes no lookup for an item whose record has no *)
(* doi before enrichment (no doi key or a null one over any DOI, and no    *)
(* non-null DOI source key without a doi key); when the record has one, be *)
(* it from the source key DOI, the one lookup made is keyed by it.         *)
C11_NoOutputDoiNoLookup ==
    \A r \in Calls :
        /\ OutputDoi(r.arg) = Null => r.looked = <<>>
        /\ r.looked # <<>> => r.looked = <<PyStr(OutputDoi(r.arg))>>
        /\ (OutputDoi(r.arg) # Null /\ r.raised # "TypeError") => r.looked # <<>>

C11_Witness ==
    /\ ~service.raised /\ "journal" \in DOMAIN service.data
    /\ \E r \in Calls :
        /\ {"DOI", "doi"} \subseteq DOMAIN r.arg
        /\ r.arg["DOI"] # Null /\ r.arg["doi"] = Null
        /\ r.raised = "" /\ r.looked = <<>>
        /\ r.ret["doi"] = Null

(* C12: when the lookup returned a mapping, every key of it except title   *)
(* is in the record with the lookup's value, and the title of the record   *)
(* is the title the item carried (no title when it carried none), never    *)
(* the lookup's title.                                                     *)
C12_MergedExceptTitle ==
    \A r \in Calls :
        r.raised = "" =>
            /\ r.looked # <<>> =>
                   \A k \in DOMAIN r.cr.data \ {"title"} :
                       k \in DOMAIN r.ret /\ r.ret[k] = r.cr.data[k]
            /\ IF "title" \in DOMAIN r.arg
               THEN "title" \in DOMAIN r.ret /\ r.ret["title"] = r.arg["title"]
               ELSE "title" \notin DOMAIN r.ret

C12_Witness ==
    /\ \E r \in Calls :
        /\ r.raised = "" /\ r.looked # <<>>
        /\ {"title", "journal"} \subseteq DOMAIN r.cr.data
        /\ "title" \in DOMAIN r.arg /\ r.arg["title"] # r.cr.data["title"]
        /\ r.ret["title"] = r.arg["title"]
        /\ r.ret["journal"] = r.cr.data["journal"]

(* C13: when the mapper is applied twice to the same item, the lookup      *)
(* doing the same both times, the second call returns the record the first *)
(* call returned.                                                          *)
C13_SameRecordTwice ==
    \A n \in 2..Len(results) :
        results[1].raised = ""
            => results[n].raised = "" /\ results[n].ret = results[1].ret

---------------------------------------------------------------------------
(* Properties of the responses (Spec).                                     *)
HandledRoute ==
    \/ req.method = "GET" /\ req.path = "/connector/ping"
    \/ req.method = "POST"
       /\ req.path \in {"/connector/ping", "/connector/getSelectedCollection",
                        "/connector/saveSnapshot", "/connector/saveItems"}

VersionHeader == Header("X-Zotero-Version", "5.0.25")
ApiVersionHeader == Header("X-Zotero-Connector-API-Version", "2")

(* The positions in out of the events that satisfy P.                      *)
Positions(P(_)) == {n \in 1..Len(out) : P(out[n])}

(* Nothing outside the handler was touched: no fetch, no file, no lookup,  *)
(* no document-store add.                                                  *)
NothingProcessed ==
    fetches = <<>> /\ fs = <<>> /\ lookups = <<>> /\ store = <<>>

(* C14: every response written starts with one status line, carries the    *)
(* header X-Zotero-Version: 5.0.25 and the header                          *)
(* X-Zotero-Connector-API-Version: 2 exactly once each, after the status   *)
(* line and before the end of the headers and any body; each of the five   *)
(* routes that ended without exception wrote such a response.              *)
C14_ProtocolHeaders ==
    LET IsStatus(e) == e.k = "status"
        IsEnd(e) == e.k = "end_headers"
        IsBody(e) == e.k = "body"
        IsVersion(e) == e.k = "header" /\ e.n = "X-Zotero-Version"
        IsApi(e) == e.k = "header" /\ e.n = "X-Zotero-Connector-API-Version"
    IN  /\ (HandledRoute /\ pc = "done") => out # <<>>
        /\ out # <<>> =>
            /\ Positions(IsStatus) = {1}
            /\ Cardinality(Positions(IsEnd)) = 1
            /\ \E v, a \in 2..Len(out) :
                /\ Positions(IsVersion) = {v} /\ out[v] = VersionHeader
                /\ Positions(IsApi) = {a} /\ out[a] = ApiVersionHeader
                /\ \A n \in Positions(IsEnd) \cup Positions(IsBody) :
                       v < n /\ a < n

C14_Witness ==
    /\ pc = "done" /\ req.method = "POST"
    /\ req.path = "/connector/getSelectedCollection"
    /\ Len(out) = 6 /\ out[3] = VersionHeader /\ out[4] = ApiVersionHeader
    /\ out[6].k = "body"

(* C15: POST /connector/saveSnapshot, whatever its body, reads no body,    *)
(* fetches nothing, adds nothing, raises nothing, and what it has written  *)
(* when it ends is status 201, the two protocol headers and no body.       *)
C15_SnapshotAccepted ==
    (req.method = "POST" /\ req.path = "/connector/saveSnapshot")
        => /\ NothingProcessed /\ rawinput = Unread /\ err = ""
           /\ pc \in {"dispatch", "done"}
           /\ pc = "dispatch" => out = <<>>
           /\ pc = "done" => out = <<StatusLine("201"), VersionHeader,
                                      ApiVersionHeader, EndHeaders>>

C15_Witness ==
    /\ req.method = "POST" /\ req.path = "/connector/saveSnapshot"
    /\ req.body = Malformed /\ pc = "done" /\ out[1] = StatusLine("201")

(* C16: GET /connector/ping writes status 200, Content-Type text/html, the *)
(* protocol headers and the HTML page; POST /connector/ping writes status  *)
(* 200, Content-Type application/json, the protocol headers and the body   *)
(* {"prefs": {"automaticSnapshots": true}}; neither reads the body nor     *)
(* touches the document store.                                             *)
C16_PingByVerb ==
    req.path = "/connector/ping"
        => /\ NothingProcessed /\ rawinput = Unread /\ err = ""
           /\ pc \in {"dispatch", "done"}
           /\ pc = "dispatch" => out = <<>>
           /\ (pc = "done" /\ req.method = "GET")
                => out = <<StatusLine("200"), Header("Content-Type", "text/html"),
                           VersionHeader, ApiVersionHeader, EndHeaders,
                           Body(PingPage)>>
           /\ (pc = "done" /\ req.method = "POST")
                => out = <<StatusLine("200"),
                           Header("Content-Type", "application/json"),
                           VersionHeader, ApiVersionHeader, EndHeaders,
                           Body("{\"prefs\": {\"automaticSnapshots\": true}}")>>

C16_Witness ==
    /\ req.path = "/connector/ping" /\ req.method = "GET" /\ pc = "done"
    /\ out[2] = Header("Content-Type", "text/html") /\ out[6] = Body(PingPage)

(* C17: a GET or POST request outside the five routes writes nothing (no   *)
(* status line, no header, no body), reads no request body, fetches and    *)
(* adds nothing, and ends without exception.                               *)
C17_NoExplicitHandling ==
    ~HandledRoute
        => /\ out = <<>> /\ rawinput = Unread /\ NothingProcessed
           /\ data = <<>> /\ err = "" /\ pc \in {"dispatch", "done"}

C17_Witness ==
    /\ req.method = "GET" /\ req.path = "/connector/saveItems"
    /\ pc = "done" /\ out = <<>>

---------------------------------------------------------------------------
(* Properties of the batch loop (Spec).                                    *)

(* C18: the files handed to the document store with item k, and the list   *)
(* being built while item k is processed, hold only files fetched from     *)
(* that item's own attachments; an item whose attachments are absent, null *)
(* or empty causes no fetch and is added with an empty file list.          *)
C18_FilesPerItem ==
    IsBatch =>
        /\ \A n \in 1..Len(store) :
            /\ \A p \in Range(store[n].files) : fs[p].item = store[n].item
            /\ ~HasAttachments(req.body.items[store[n].item])
                   => store[n].files = <<>>
        /\ pc \in {"for_attachment", "map", "add_run"}
               => \A p \in Range(files) : fs[p].item = i
        /\ \A f \in Range(fetches) : HasAttachments(req.body.items[f[1]])

C18_Witness ==
    /\ IsBatch /\ pc = "done" /\ Len(store) = 2
    /\ store[1].files = <<1>> /\ fs[1].item = 1
    /\ store[2].item = 2 /\ store[2].files = <<>>
    /\ Get(req.body.items[2], "attachments") = Null
    /\ \A f \in Range(fetches) : f[1] = 1

WroteStatus == \E n \in 1..Len(out) : out[n].k = "status"

C19_AckAfterAll ==
    IsBatch =>
        /\ WroteStatus => StoredItems = [n \in 1..NumItems |-> n]
        /\ pc = "raised"
               => /\ i \in 1..NumItems
                  /\ StoredItems = [n \in 1..(i - 1) |-> n]
                  /\ ~WroteStatus

C19_Step ==
    /\ pc # "raised"
    /\ store' = store \/ (\E s \in Range(store') : store' = Append(store, s))

(* C19: the status line of a saveItems batch is written only when every    *)
(* item of the batch has been handed to the document store; when an        *)
(* exception leaves the handler at item k, items 1..k-1 are added, items    *)
(* k..N are not, no status line has been written, and nothing happens      *)
(* afterwards; an item once added stays added.                             *)
C19_NoEarlyAckNotAtomic == []C19_AckAfterAll /\ [][C19_Step]_vars

C19_Witness ==
    /\ IsBatch /\ NumItems = 2 /\ pc = "raised" /\ i = 2
    /\ StoredItems = <<1>> /\ out = <<>>

====
